---- MODULE Spec2Model ----
(***************************************************************************)
(* The embedded-media resolution pipeline of markitdown's DOCX and PPTX    *)
(* converters: converters/_docx_converter.py and _pptx_converter.py.       *)
(*                                                                         *)
(* Text is a sequence of tokens.  Everything the two resolver passes look   *)
(* at (marker prefixes, parentheses, base64 characters) is one token per    *)
(* character; a file reference, which contains none of these characters,    *)
(* is a single token.                                                       *)
(***************************************************************************)
EXTENDS Naturals, Integers, Sequences, FiniteSets, TLC

(***************************************************************************)
(* Bounds of the model.                                                     *)
(***************************************************************************)
MaxImages == 2
MaxSlides == 2
MaxFrames == 30
MaxPayload == 4
MaxOmmlLen == 3
MaxB64Len == 4
MaxOutside == 1

VARIABLES
    converter,      \* "docx" | "pptx": which convert() is running
    pc,             \* position inside convert()
    save_images_dir,\* kwargs.get("save_images_dir") is set
    ocr_formulas,   \* kwargs.get("ocr_formulas", True)
    llm,            \* llm_client and llm_model are both configured
    cwd_is_parent,  \* the relative path "<dir name>/<file>" resolves from the cwd
    keep_data_uris, \* kwargs.get("keep_data_uris", False) of the PPTX converter
    pil,            \* PIL can be imported
    dependency_exc_info, \* _dependency_exc_info: None, or the ImportError of mammoth / pptx
    other,          \* the local variables of a second convert() call on the same
                    \* converter instance while that call is not the one running
    slide_num,      \* PptxConverter.convert: slide_num
    md_content,     \* PptxConverter.convert: the image references of md_content
    image_counter,  \* DocxImageWriter.image_counter / PptxConverter image_counter
    ocr_cache,      \* DocxImageWriterWith_llm.ocr_cache: hash -> latex
    temp_files,     \* DocxImageWriterWith_llm.temp_files
    stats,          \* DocxImageWriterWith_llm.stats
    files,          \* the output directory: file name -> content
    html,           \* what mammoth has produced so far: text and <img> elements
    text_content,   \* DocxConverter.convert: text_content
    history,        \* the classifier, transcoder and service invocations so far
    arg,            \* the argument of a function applied on its own
    ret             \* and what it returned

cfgvars == <<converter, save_images_dir, ocr_formulas, llm, cwd_is_parent,
             keep_data_uris, pil, dependency_exc_info, other>>
docxvars == <<ocr_cache, temp_files, stats, html, text_content>>
pptxvars == <<slide_num, md_content>>
writer == <<image_counter, ocr_cache, temp_files, stats>>
vars == <<converter, pc, save_images_dir, ocr_formulas, llm, cwd_is_parent,
          keep_data_uris, pil, dependency_exc_info, other, slide_num, md_content, image_counter, ocr_cache, temp_files, stats, files, html,
          text_content, history, arg, ret>>

(***************************************************************************)
(* Media objects and the outcomes of the external collaborators.            *)
(***************************************************************************)
None == "None"
ContentTypes == {"image/png", "image/wmf", "image/x-wmf", "image/emf"}
\* Two different byte contents: enough for "the same bytes" and "other bytes".
Blobs == {1, 2}
\* image.content_type of a mammoth image: a content type or None
Images == [content_type : (ContentTypes \ {"image/png"}) \cup {None}, blob : Blobs]

\* 100 * 1024 in _is_likely_formula
SizeLimit == 100 * 1024
\* The byte length of a blob: at the threshold and above it.  A converted PNG, a
\* 600 dpi rendering, is taken to be above the threshold.
BlobSize(b) == IF b % 2 = 1 THEN SizeLimit ELSE SizeLimit + 1
PngSizes == {SizeLimit + 1}

\* File contents: the raw bytes of a blob, or the PNG the conversion makes of them.
Raw(b) == [fmt |-> "raw", blob |-> b]
Png(c) == [fmt |-> "png", blob |-> c.blob]

\* subprocess.run(['magick', ...]): the process is not found, exits non-zero,
\* times out, or exits 0 having written the output file.
MagickOutcomes == {"ok", "nonzero", "timeout", "notfound"}
\* a process that exits non-zero or is killed at the timeout can have written (a
\* part of) its output file before
MagickLeftovers == {"nonzero_output", "timeout_output"}

\* llm_client.chat.completions.create: an exception, or a message content.
LlmTexts == {<<" ">>, <<"x">>, <<" ", "(", "x", ")">>}
LlmResponses == {[ok |-> FALSE, content |-> <<>>]}
                \cup {[ok |-> TRUE, content |-> t] : t \in LlmTexts}


(***************************************************************************)
(* The output directory and the external raster-conversion process.         *)
(***************************************************************************)
NoFiles == [n \in {} |-> None]
WriteFile(fs, name, content) ==
    [n \in DOMAIN fs \cup {name} |-> IF n = name THEN content ELSE fs[n]]
Unlink(fs, name) == [n \in DOMAIN fs \ {name} |-> fs[n]]

\* subprocess.run(['magick', ..., input, ..., output], timeout=30).  status "ok" is
\* return code 0 with the output written; an input that cannot be read makes the
\* process fail.
Magick(fs, readable, input, output, outcome) ==
    IF outcome = "ok" /\ readable /\ input \in DOMAIN fs
    THEN [status |-> "ok", files |-> WriteFile(fs, output, Png(fs[input]))]
    ELSE IF outcome \in MagickLeftovers
    THEN [status |-> IF outcome = "nonzero_output" THEN "nonzero" ELSE "timeout",
          files |-> IF readable /\ input \in DOMAIN fs
                    THEN WriteFile(fs, output, [fmt |-> "partial", blob |-> fs[input].blob])
                    ELSE fs]
    ELSE [status |-> IF outcome = "ok" THEN "nonzero" ELSE outcome, files |-> fs]

\* mimetypes.guess_extension for the content types of the model
GuessExtension(ct) ==
    CASE ct = "image/png" -> ".png"
      [] ct = "image/wmf" -> ".wmf"
      [] ct = "image/emf" -> ".emf"
      [] OTHER -> None
\* 'wmf' in content_type.lower(), 'emf' in content_type.lower()
ContainsWmf(ct) == ct \in {"image/wmf", "image/x-wmf"}
ContainsEmf(ct) == ct \in {"image/emf", "image/x-emf"}

\* f"{n:03d}"
Pad3(n) ==
    IF n < 10 THEN "00" \o ToString(n)
    ELSE IF n < 100 THEN "0" \o ToString(n) ELSE ToString(n)
ImageName(n, ext) == "image_" \o Pad3(n) \o ext
\* output_dir.name
DirName == "images"
\* f"{self.output_dir.name}/{filename}"
SrcOf(filename) == DirName \o "/" \o filename

(***************************************************************************)
(* DocxImageWriter.__call__: save one image, converting WMF/EMF to PNG.     *)
(* m is the outcome of the external process.                                *)
(***************************************************************************)
\* A counter that stops at 1 (variant of NextImageCounter)
NextImageCounterM(counter) == IF counter = 0 THEN 1 ELSE counter

\* self.image_counter += 1
NextImageCounter(counter) == counter + 1

\* What the conversion process did, as the history keeps it
Outcome(status) == IF status \in {"ok", "none"} THEN status ELSE "failed"

\* A writer that refers to the PNG name whatever the conversion process did
\* (variant of DocxImageWriter_call)
DocxImageWriter_callM(counter, fs, image, m) ==
    LET content_type == IF image.content_type = None THEN "image/png"
                        ELSE image.content_type
        guess == GuessExtension(content_type)
        extension == IF guess = None THEN ".png" ELSE guess
        is_wmf_emf == \/ extension \in {".wmf", ".emf"}
                      \/ ContainsWmf(content_type)
                      \/ ContainsEmf(content_type)
        n == counter + 1
        name == ImageName(n, extension)
        fs1 == WriteFile(fs, name, Raw(image.blob))
        run == Magick(fs1, TRUE, name, ImageName(n, ".png"), m)
    IN  IF is_wmf_emf
        THEN [image_counter |-> n, files |-> run.files,
              filename |-> ImageName(n, ".png"), suffix |-> ".png",
              original |-> name, written |-> {name, ImageName(n, ".png")},
              is_wmf_emf |-> TRUE, magick |-> run.status]
        ELSE [image_counter |-> n, files |-> fs1,
              filename |-> name, suffix |-> extension,
              original |-> name, written |-> {name},
              is_wmf_emf |-> FALSE, magick |-> "none"]

DocxImageWriter_call(counter, fs, image, m) ==
    LET content_type == IF image.content_type = None THEN "image/png"
                        ELSE image.content_type
        guess == GuessExtension(content_type)
        extension == IF guess = None THEN ".png" ELSE guess
        is_wmf_emf == \/ extension \in {".wmf", ".emf"}
                      \/ ContainsWmf(content_type)
                      \/ ContainsEmf(content_type)
        n == NextImageCounter(counter)
    IN  IF is_wmf_emf
        THEN LET temp_filename == ImageName(n, extension)
                 fs1 == WriteFile(fs, temp_filename, Raw(image.blob))
                 png_filename == ImageName(n, ".png")
                 run == Magick(fs1, TRUE, temp_filename, png_filename, m)
             IN  IF run.status = "ok" /\ png_filename \in DOMAIN run.files
                 THEN [image_counter |-> n,
                       files |-> Unlink(run.files, temp_filename),
                       filename |-> png_filename, suffix |-> ".png",
                       original |-> temp_filename,
                       written |-> {temp_filename, png_filename},
                       is_wmf_emf |-> TRUE, magick |-> run.status]
                 ELSE [image_counter |-> n,
                       files |-> run.files,
                       filename |-> temp_filename, suffix |-> extension,
                       original |-> temp_filename,
                       written |-> {temp_filename},
                       is_wmf_emf |-> TRUE, magick |-> run.status]
        ELSE LET filename == ImageName(n, extension)
             IN  [image_counter |-> n,
                  files |-> WriteFile(fs, filename, Raw(image.blob)),
                  filename |-> filename, suffix |-> extension,
                  original |-> filename,
                  written |-> {filename},
                  is_wmf_emf |-> FALSE, magick |-> "none"]

(***************************************************************************)
(* DocxImageWriterWith_llm.  self is the writer's state:                    *)
(* [image_counter, ocr_cache, temp_files, stats].                           *)
(***************************************************************************)
ZeroStats == [total_images |-> 0, formula_detected |-> 0, ocr_success |-> 0,
              ocr_failed |-> 0, ocr_cached |-> 0]
Bump(st, field) == [st EXCEPT ![field] = @ + 1]

\* A path Path(result["src"]) is relative: open() and stat() on it succeed only when
\* it resolves from the working directory and the file is there.
Readable(fs, name) == cwd_is_parent /\ name \in DOMAIN fs

\* filepath.stat().st_size, or -1 for the OSError the code swallows; sz is the
\* length of the file when it is a converted PNG
StatSize(fs, name, sz) ==
    IF ~Readable(fs, name) THEN -1
    ELSE IF fs[name].fmt = "raw" THEN BlobSize(fs[name].blob) ELSE sz

\* A classifier that gives up after the first formula of a document (variant of
\* IsLikelyFormula)
IsLikelyFormulaM(self, suffix, content_type, st) ==
    /\ self.stats.formula_detected = 0
    /\ \/ suffix \in {".wmf"}
       \/ content_type # None /\ (ContainsWmf(content_type) \/ ContainsEmf(content_type))

\* _is_likely_formula(self, filepath, content_type); st is the result of stat()
IsLikelyFormula(self, suffix, content_type, st) ==
    IF suffix \in {".wmf"} THEN TRUE
    ELSE IF content_type # None /\ (ContainsWmf(content_type) \/ ContainsEmf(content_type))
    THEN TRUE
    ELSE IF st # -1 /\ st > SizeLimit THEN FALSE
    ELSE FALSE

\* hashlib.md5(f.read()).hexdigest(): a digest is identified with the bytes it
\* digests (no collisions); NoHash is the None returned when the file cannot be read.
NoContent == [fmt |-> "none", blob |-> 0]
NoHash == [md5 |-> NoContent]
GetImageHash(fs, name) == IF Readable(fs, name) THEN [md5 |-> fs[name]] ELSE NoHash

\* tempfile.mktemp(suffix='.png', dir=self.output_dir): a name not in use; one is
\* drawn per image at most, so the image's number makes it fresh.
MkTemp(n) == "tmp" \o ToString(n) \o ".png"

\* _convert_to_png_if_needed(self, filepath)
ConvertToPngIfNeeded(self, fs, name, suffix, m) ==
    IF suffix \notin {".wmf", ".emf"}
    THEN [path |-> name, files |-> fs, temp_files |-> self.temp_files, magick |-> "none"]
    ELSE LET temp_png == MkTemp(self.image_counter)
             run == Magick(fs, cwd_is_parent, name, temp_png, m)
         IN  IF run.status = "ok" /\ temp_png \in DOMAIN run.files
             THEN [path |-> temp_png, files |-> run.files,
                   temp_files |-> Append(self.temp_files, temp_png),
                   magick |-> run.status]
             ELSE [path |-> name, files |-> run.files,
                   temp_files |-> self.temp_files, magick |-> run.status]

\* A response used as it came (variant of Strip)
StripM(s) == s

\* str.strip()
RECURSIVE LStrip(_)
LStrip(s) == IF s # <<>> /\ Head(s) = " " THEN LStrip(Tail(s)) ELSE s
RECURSIVE RStrip(_)
RStrip(s) == IF s # <<>> /\ s[Len(s)] = " " THEN RStrip(SubSeq(s, 1, Len(s) - 1)) ELSE s
Strip(s) == RStrip(LStrip(s))

\* A cache of one entry: a store evicts what was there (variant of CacheStore)
CacheStoreM(cache, img_hash, latex) == [h \in {img_hash} |-> latex]

\* The cache store of _recognize_formula: if self.cache_ocr_results and img_hash
CacheStore(cache, img_hash, latex) ==
    IF img_hash # NoHash
    THEN [h \in DOMAIN cache \cup {img_hash} |-> IF h = img_hash THEN latex ELSE cache[h]]
    ELSE cache

\* The cache lookup of _recognize_formula: if img_hash and img_hash in self.ocr_cache
CacheHit(cache, img_hash) == img_hash # NoHash /\ img_hash \in DOMAIN cache

\* The try block of _recognize_formula from the open() of the converted file on
\* (lines 367-419).  base: what the call has done so far, conv: the result of
\* _convert_to_png_if_needed, resp: the answer of the service.
RecognizeConverted(self, base, img_hash, conv, resp) ==
    LET failed == [stats |-> Bump(self.stats, "ocr_failed"),
                   found |-> FALSE, latex |-> <<>>]
        after == [base EXCEPT !.temp_files = conv.temp_files,
                              !.files = conv.files, !.magick = conv.magick]
        called == [after EXCEPT !.called = TRUE,
                                !.sent = IF Readable(conv.files, conv.path)
                                         THEN conv.files[conv.path] ELSE NoContent]
        latex == Strip(resp.content)
    IN  IF ~Readable(conv.files, conv.path)
        THEN \* open(png_path, 'rb') raises inside the try
             failed @@ after
        ELSE IF ~resp.ok THEN failed @@ called
        ELSE IF latex # <<>>
        THEN [stats |-> Bump(self.stats, "ocr_success"), found |-> TRUE, latex |-> latex]
             @@ [called EXCEPT !.ocr_cache = CacheStore(self.ocr_cache, img_hash, latex)]
        ELSE failed @@ called

\* A recognition that does not count the formula it gives up on for want of a
\* client (variant of RecognizeFormula)
RecognizeFormulaM(self, fs, name, suffix, m, resp) ==
    LET base == [ocr_cache |-> self.ocr_cache, temp_files |-> self.temp_files,
                 files |-> fs, magick |-> "none", called |-> FALSE,
                 sent |-> NoContent, cached |-> FALSE]
        img_hash == GetImageHash(fs, name)
    IN  IF ~llm
        THEN [stats |-> self.stats, found |-> FALSE, latex |-> <<>>] @@ base
        ELSE IF CacheHit(self.ocr_cache, img_hash)
        THEN [stats |-> Bump(self.stats, "ocr_cached"),
              found |-> TRUE, latex |-> self.ocr_cache[img_hash]]
             @@ [base EXCEPT !.cached = TRUE]
        ELSE RecognizeConverted(self, base, img_hash,
                                ConvertToPngIfNeeded(self, fs, name, suffix, m), resp)

\* _recognize_formula(self, image_path).  m: the outcome of the conversion, resp:
\* the answer of the service.  found = FALSE is the code's "return None"; called
\* says whether the service was invoked, and sent is what it was invoked with.
RecognizeFormula(self, fs, name, suffix, m, resp) ==
    LET base == [ocr_cache |-> self.ocr_cache, temp_files |-> self.temp_files,
                 files |-> fs, magick |-> "none", called |-> FALSE,
                 sent |-> NoContent, cached |-> FALSE]
        img_hash == GetImageHash(fs, name)
    IN  IF ~llm
        THEN [stats |-> Bump(self.stats, "ocr_failed"), found |-> FALSE, latex |-> <<>>]
             @@ base
        ELSE IF CacheHit(self.ocr_cache, img_hash)
        THEN [stats |-> Bump(self.stats, "ocr_cached"),
              found |-> TRUE, latex |-> self.ocr_cache[img_hash]]
             @@ [base EXCEPT !.cached = TRUE]
        ELSE RecognizeConverted(self, base, img_hash,
                                ConvertToPngIfNeeded(self, fs, name, suffix, m), resp)

(***************************************************************************)
(* DocxImageWriterWith_llm.__call__.  The events are the history of the     *)
(* classifier, transcoder and service invocations the call made.            *)
(***************************************************************************)
\* "LATEX_FORMULA:"
LatexSrcPrefix == <<"L", "A", "T", "E", "X", "_", "F", "O", "R", "M", "U", "L", "A", ":">>

\* What one call adds to the history
NoEvents == [transcodes |-> 0, classified |-> {}, service |-> {}, object |-> <<>>]
\* One media object as the history keeps it: the number it got, the files written
\* for it, what the two conversions did, the file it started as and the file the
\* writer refers to, and whether a marker was returned for it.
Object(n, names, base, conv, original, filename, marker) ==
    [n |-> n, names |-> names, base |-> base, conv |-> conv,
     original |-> original, filename |-> filename, marker |-> marker]
ServiceCall(blob, sent, prompt) == [blob |-> blob, sent |-> sent, prompt |-> prompt]

\* The end of __call__ (lines 449-459): rec is what _recognize_formula returned
MarkerOrImage(image, result, classified, rec) ==
    LET marker == rec.found /\ rec.latex # <<>>
        temp_written == IF rec.magick = "ok" THEN {rec.temp_files[Len(rec.temp_files)]}
                        ELSE {}
        ev3 == [classified.events EXCEPT
                  !.transcodes = @ + (IF rec.magick # "none" THEN 1 ELSE 0),
                  !.service = IF rec.called
                              THEN {ServiceCall(image.blob, rec.sent, "formula")}
                              ELSE {},
                  !.object = <<Object(result.image_counter,
                                      result.written \cup temp_written,
                                      Outcome(result.magick), Outcome(rec.magick),
                                      result.original, result.filename, marker)>>]
    IN  [classified EXCEPT
           !.ocr_cache = rec.ocr_cache, !.temp_files = rec.temp_files,
           !.stats = rec.stats, !.files = rec.files,
           !.detected = TRUE, !.cached = rec.cached, !.events = ev3,
           !.used.m2 = rec.magick # "none", !.used.resp = rec.called,
           !.src = IF marker THEN LatexSrcPrefix \o rec.latex ELSE @,
           !.marker = marker]

\* The middle of __call__ (lines 437-447): st is the result of stat(), verdict what
\* _is_likely_formula returned
ClassifiedImage(self1, image, content_type, result, plain, st, verdict, m2, resp) ==
    LET classified ==
            [plain EXCEPT
               !.events.classified = {[ct |-> content_type, suffix |-> result.suffix,
                                       size |-> st, verdict |-> verdict]},
               !.used.sz = /\ Readable(result.files, result.filename)
                           /\ result.files[result.filename].fmt = "png"]
    IN  IF ~verdict THEN classified
        ELSE MarkerOrImage(image, result, classified,
                 RecognizeFormula([self1 EXCEPT !.stats = Bump(@, "formula_detected")],
                                  result.files, result.filename, result.suffix,
                                  m2, resp))

\* __call__ after super().__call__(image) has returned result (lines 435-459)
SavedImage(self1, image, content_type, result, sz, m2, resp) ==
    LET plain == [image_counter |-> result.image_counter,
                  ocr_cache |-> self1.ocr_cache,
                  temp_files |-> self1.temp_files, stats |-> self1.stats,
                  files |-> result.files, src |-> <<SrcOf(result.filename)>>,
                  base |-> result, marker |-> FALSE, detected |-> FALSE,
                  cached |-> FALSE,
                  events |-> [NoEvents EXCEPT
                      !.transcodes = IF result.is_wmf_emf THEN 1 ELSE 0,
                      !.object = <<Object(result.image_counter, result.written,
                                          Outcome(result.magick), "none",
                                          result.original, result.filename, FALSE)>>],
                  used |-> [m1 |-> result.is_wmf_emf, sz |-> FALSE,
                            m2 |-> FALSE, resp |-> FALSE]]
        st == StatSize(result.files, result.filename, sz)
    IN  IF ~ocr_formulas THEN plain
        ELSE ClassifiedImage(self1, image, content_type, result, plain, st,
                 IsLikelyFormula(self1, result.suffix, content_type, st), m2, resp)

\* self after the first lines of __call__: total_images counted, the counter
\* advanced by the parent's __call__
Counted(self, result) ==
    [self EXCEPT !.stats = Bump(@, "total_images"),
                 !.image_counter = result.image_counter]

\* __call__ with the result of super().__call__(image) at hand
AfterSuperCall(self, image, result, sz, m2, resp) ==
    SavedImage(Counted(self, result), image,
               IF image.content_type = None THEN "image/png" ELSE image.content_type,
               result, sz, m2, resp)

DocxImageWriterWith_llm_call(self, fs, image, m1, sz, m2, resp) ==
    AfterSuperCall(self, image,
                DocxImageWriter_call(self.image_counter, fs, image, m1), sz, m2, resp)

(***************************************************************************)
(* Post-processing 2 of DocxConverter.convert: the LATEX_FORMULA markers.   *)
(***************************************************************************)
\* the pattern r'!\[\]\(LATEX_FORMULA:'
LatexPattern == <<"!", "[", "]", "(">> \o LatexSrcPrefix

\* the pattern matches text at (1-based) position i
MatchesAt(text, i, pattern) ==
    /\ i + Len(pattern) - 1 <= Len(text)
    /\ SubSeq(text, i, i + Len(pattern) - 1) = pattern

\* The while loop of replace_latex_formula, 1-based: the position after the loop.
RECURSIVE ScanParens(_, _, _)
ScanParens(text, pos, depth) ==
    IF pos <= Len(text) /\ depth > 0
    THEN ScanParens(text, pos + 1,
                    IF text[pos] = "(" THEN depth + 1
                    ELSE IF text[pos] = ")" THEN depth - 1 ELSE depth)
    ELSE pos

\* replace_latex_formula(match_obj): start is the 1-based position after the match.
\* Python's text[start:pos-1] is, 1-based, the elements start .. pos-2.
ReplaceLatexFormula(text, start) ==
    LET pos == ScanParens(text, start, 1)
    IN  SubSeq(text, start, pos - 2)

\* re.sub(pattern, replace_latex_formula, text): each match of the pattern, and
\* only the match, is replaced by what the function returns; the scan goes on
\* right after the match.
RECURSIVE ReSubLatexFrom(_, _, _)
ReSubLatexFrom(text, i, out) ==
    IF i > Len(text) THEN out
    ELSE IF MatchesAt(text, i, LatexPattern)
    THEN ReSubLatexFrom(text, i + Len(LatexPattern),
                        out \o ReplaceLatexFormula(text, i + Len(LatexPattern)))
    ELSE ReSubLatexFrom(text, i + 1, Append(out, text[i]))
ReSubLatex(text) == ReSubLatexFrom(text, 1, <<>>)

(***************************************************************************)
(* Post-processing 0 of DocxConverter.convert: the OMML placeholders.       *)
(* "U+27E8" and "U+27E9" are the two bracket characters of the marker.      *)
(* Characters are tokens; Ord and Chr give the code points of the model's   *)
(* characters, any other code point n is the token "U+n".                   *)
(***************************************************************************)
B64Alphabet ==
    <<"A", "B", "C", "D", "E", "F", "G", "H", "I", "J", "K", "L", "M", "N", "O", "P",
      "Q", "R", "S", "T", "U", "V", "W", "X", "Y", "Z", "a", "b", "c", "d", "e", "f",
      "g", "h", "i", "j", "k", "l", "m", "n", "o", "p", "q", "r", "s", "t", "u", "v",
      "w", "x", "y", "z", "0", "1", "2", "3", "4", "5", "6", "7", "8", "9", "+", "/">>
B64Chars == {B64Alphabet[i] : i \in 1..64}
B64Value(ch) == (CHOOSE i \in 1..64 : B64Alphabet[i] = ch) - 1

CharTable == <<<<"a", 97>>, <<">", 62>>, <<"?", 63>>, <<"~", 126>>, <<"U+E9", 233>>>>
Ord(ch) == (CHOOSE e \in {CharTable[i] : i \in 1..Len(CharTable)} : e[1] = ch)[2]
Chr(cp) ==
    IF \E i \in 1..Len(CharTable) : CharTable[i][2] = cp
    THEN (CHOOSE e \in {CharTable[i] : i \in 1..Len(CharTable)} : e[2] = cp)[1]
    ELSE "U+" \o ToString(cp)

\* str.encode('utf-8') for code points below U+0800
RECURSIVE Utf8Encode(_)
Utf8Encode(text) ==
    IF text = <<>> THEN <<>>
    ELSE LET cp == Ord(Head(text))
         IN  (IF cp < 128 THEN <<cp>>
              ELSE <<192 + (cp \div 64), 128 + (cp % 64)>>) \o Utf8Encode(Tail(text))

\* bytes.decode('utf-8'), strict: [ok, text]
RECURSIVE Utf8Decode(_)
Utf8Decode(bytes) ==
    IF bytes = <<>> THEN [ok |-> TRUE, text |-> <<>>]
    ELSE LET b0 == bytes[1]
             n == IF b0 < 128 THEN 1
                  ELSE IF b0 >= 194 /\ b0 < 224 THEN 2
                  ELSE IF b0 >= 224 /\ b0 < 240 THEN 3
                  ELSE 0
             cont(k) == k <= Len(bytes) /\ bytes[k] >= 128 /\ bytes[k] < 192
             valid == CASE n = 1 -> TRUE
                        [] n = 2 -> cont(2)
                        [] n = 3 -> /\ cont(2) /\ cont(3)
                                    /\ (b0 = 224 => bytes[2] >= 160)
                                    /\ (b0 = 237 => bytes[2] < 160)
                        [] OTHER -> FALSE
         IN  IF ~valid THEN [ok |-> FALSE, text |-> <<>>]
             ELSE LET cp == CASE n = 1 -> b0
                              [] n = 2 -> (b0 - 192) * 64 + (bytes[2] - 128)
                              [] OTHER -> (b0 - 224) * 4096 + (bytes[2] - 128) * 64
                                          + (bytes[3] - 128)
                      rest == Utf8Decode(SubSeq(bytes, n + 1, Len(bytes)))
                  IN  [ok |-> rest.ok,
                       text |-> IF rest.ok THEN <<Chr(cp)>> \o rest.text ELSE <<>>]

\* base64.b64encode(...).decode('utf-8')
RECURSIVE B64Encode(_)
B64Encode(bytes) ==
    LET ch(v) == B64Alphabet[v + 1]
    IN  CASE Len(bytes) = 0 -> <<>>
          [] Len(bytes) = 1 ->
                <<ch(bytes[1] \div 4), ch((bytes[1] % 4) * 16), "=", "=">>
          [] Len(bytes) = 2 ->
                <<ch(bytes[1] \div 4), ch((bytes[1] % 4) * 16 + bytes[2] \div 16),
                  ch((bytes[2] % 16) * 4), "=">>
          [] OTHER ->
                <<ch(bytes[1] \div 4), ch((bytes[1] % 4) * 16 + bytes[2] \div 16),
                  ch((bytes[2] % 16) * 4 + bytes[3] \div 64), ch(bytes[3] % 64)>>
                \o B64Encode(SubSeq(bytes, 4, Len(bytes)))

\* base64.b64decode(s) (binascii.a2b_base64, not strict): characters outside the
\* alphabet are skipped, complete padding ends the data, an incomplete last
\* quad is an error.  quad: the sextets of the current quad, pads: the '=' seen.
RECURSIVE B64DecodeFrom(_, _, _, _, _)
B64DecodeFrom(s, i, quad, pads, out) ==
    IF i > Len(s)
    THEN [ok |-> quad = <<>>, bytes |-> out]
    ELSE IF s[i] = "="
    THEN IF Len(quad) >= 2
         THEN IF Len(quad) + pads + 1 >= 4
              THEN [ok |-> TRUE, bytes |-> out]
              ELSE B64DecodeFrom(s, i + 1, quad, pads + 1, out)
         ELSE B64DecodeFrom(s, i + 1, quad, pads, out)
    ELSE IF s[i] \notin B64Chars
    THEN B64DecodeFrom(s, i + 1, quad, pads, out)
    ELSE LET v == B64Value(s[i])
         IN  CASE Len(quad) = 0 -> B64DecodeFrom(s, i + 1, <<v>>, 0, out)
               [] Len(quad) = 1 ->
                    B64DecodeFrom(s, i + 1, Append(quad, v), 0,
                                  Append(out, quad[1] * 4 + v \div 16))
               [] Len(quad) = 2 ->
                    B64DecodeFrom(s, i + 1, Append(quad, v), 0,
                                  Append(out, (quad[2] % 16) * 16 + v \div 4))
               [] OTHER ->
                    B64DecodeFrom(s, i + 1, <<>>, 0,
                                  Append(out, (quad[3] % 4) * 64 + v))
B64Decode(s) == B64DecodeFrom(s, 1, <<>>, 0, <<>>)

\* str.replace(old, new) for a two-character old and a one-character new
RECURSIVE Replace2(_, _, _)
Replace2(s, old, new) ==
    IF Len(s) < 2 THEN s
    ELSE IF SubSeq(s, 1, 2) = old
    THEN <<new>> \o Replace2(SubSeq(s, 3, Len(s)), old, new)
    ELSE <<Head(s)>> \o Replace2(Tail(s), old, new)

\* An escape reversal that mixes up the two characters (variant of Unescape)
UnescapeM(latex_b64) ==
    Replace2(Replace2(latex_b64, <<"\\", "+">>, "/"), <<"\\", "/">>, "+")

\* latex_b64.replace(r'\+', '+').replace(r'\/', '/')
Unescape(latex_b64) ==
    Replace2(Replace2(latex_b64, <<"\\", "+">>, "+"), <<"\\", "/">>, "/")

\* A handler that drops the marker when decoding fails (variant of
\* DecodeOmmlPlaceholder)
DecodeOmmlPlaceholderM(delimiter, latex_b64, group0) ==
    LET raw == B64Decode(Unescape(latex_b64))
        latex == Utf8Decode(raw.bytes)
    IN  IF raw.ok /\ latex.ok
        THEN IF delimiter = <<"$", "$">>
             THEN delimiter \o latex.text \o delimiter \o <<"\n", "\n">>
             ELSE delimiter \o latex.text \o delimiter
        ELSE <<>>

\* decode_omml_placeholder(match): group 1 is delimiter, group 2 latex_b64, group 0
\* the whole match.
DecodeOmmlPlaceholder(delimiter, latex_b64, group0) ==
    LET raw == B64Decode(Unescape(latex_b64))
        latex == Utf8Decode(raw.bytes)
    IN  IF raw.ok /\ latex.ok
        THEN IF delimiter = <<"$", "$">>
             THEN delimiter \o latex.text \o delimiter \o <<"\n", "\n">>
             ELSE delimiter \o latex.text \o delimiter
        ELSE group0

\* the pattern r'<U+27E8>OMML:(\$+):([A-Za-z0-9+/=\\]+)<U+27E9>'
OmmlOpen == <<"U+27E8", "O", "M", "M", "L", ":">>
OmmlClose == "U+27E9"
OmmlClass == B64Chars \cup {"=", "\\"}

\* the length of the longest run of characters of class from position i on
RECURSIVE RunLength(_, _, _)
RunLength(text, i, class) ==
    IF i <= Len(text) /\ text[i] \in class THEN 1 + RunLength(text, i + 1, class) ELSE 0

\* The match of the OMML pattern at position i: [found, delimiter, latex_b64,
\* end] with end the position after the match.
OmmlMatchAt(text, i) ==
    LET d0 == i + Len(OmmlOpen)
        nd == RunLength(text, d0, {"$"})
        c0 == d0 + nd + 1
        nc == RunLength(text, c0, OmmlClass)
        found == /\ MatchesAt(text, i, OmmlOpen)
                 /\ nd >= 1
                 /\ d0 + nd <= Len(text) /\ text[d0 + nd] = ":"
                 /\ nc >= 1
                 /\ c0 + nc <= Len(text) /\ text[c0 + nc] = OmmlClose
    IN  [found |-> found,
         delimiter |-> IF found THEN SubSeq(text, d0, d0 + nd - 1) ELSE <<>>,
         latex_b64 |-> IF found THEN SubSeq(text, c0, c0 + nc - 1) ELSE <<>>,
         end |-> IF found THEN c0 + nc + 1 ELSE i]

\* re.sub(pattern, decode_omml_placeholder, text_content)
RECURSIVE ReSubOmmlFrom(_, _, _)
ReSubOmmlFrom(text, i, out) ==
    IF i > Len(text) THEN out
    ELSE LET m == OmmlMatchAt(text, i)
         IN  IF m.found
             THEN ReSubOmmlFrom(text, m.end,
                      out \o DecodeOmmlPlaceholder(m.delimiter, m.latex_b64,
                                                   SubSeq(text, i, m.end - 1)))
             ELSE ReSubOmmlFrom(text, i + 1, Append(out, text[i]))
\* A substitution whose result is stripped of surrounding white space (variant of
\* ReSubOmml)
ReSubOmmlM(text) == Strip(ReSubOmmlFrom(text, 1, <<>>))

ReSubOmml(text) == ReSubOmmlFrom(text, 1, <<>>)

(***************************************************************************)
(* DocxConverter.convert.                                                   *)
(***************************************************************************)
\* The markdown of an <img alt=... src=...> element: ![alt](src)
ImgMarkdown(alt, src) == <<"!", "[">> \o alt \o <<"]", "(">> \o src \o <<")">>

\* self._html_converter.convert_string(html_result.value).text_content: html is
\* the sequence of the src attributes of the document's <img> elements
RECURSIVE Markdown(_)
Markdown(items) ==
    IF items = <<>> THEN <<>>
    ELSE ImgMarkdown(<<>>, Head(items)) \o Markdown(Tail(items))

NoHistory == [transcodes |-> 0, classified |-> 0, verdicts |-> {},
              service |-> [b \in Blobs |-> 0], sent |-> {}, objects |-> <<>>]
Record(h, ev) ==
    [transcodes |-> h.transcodes + ev.transcodes,
     classified |-> h.classified + Cardinality(ev.classified),
     verdicts |-> h.verdicts \cup ev.classified,
     service |-> [b \in Blobs |->
                    h.service[b] + Cardinality({e \in ev.service : e.blob = b})],
     sent |-> h.sent \cup ev.service,
     objects |-> h.objects \o ev.object]

NoCache == [h \in {} |-> <<>>]

InitWriter ==
    /\ image_counter = 0
    /\ ocr_cache = NoCache
    /\ temp_files = <<>>
    /\ stats = ZeroStats
    /\ files = NoFiles

\* The local variables of a convert() call: its position, the image writer it
\* constructed (DOCX) or its counter (PPTX), what it has produced, and the
\* invocations it has made.
Locals ==
    [pc |-> pc, image_counter |-> image_counter, ocr_cache |-> ocr_cache,
     temp_files |-> temp_files, stats |-> stats, html |-> html,
     text_content |-> text_content, history |-> history,
     slide_num |-> slide_num, md_content |-> md_content]
\* a call that has not done anything yet
NewCall ==
    [pc |-> "convert", image_counter |-> 0, ocr_cache |-> NoCache,
     temp_files |-> <<>>, stats |-> ZeroStats, html |-> <<>>,
     text_content |-> <<>>, history |-> NoHistory,
     slide_num |-> 0, md_content |-> <<>>]
\* there is no second call
NoThread == [NewCall EXCEPT !.pc = "none"]

\* DocxConverter.convert is called
InitDocx ==
    /\ other = NoThread
    /\ converter = "docx"
    /\ pc = "convert"
    /\ dependency_exc_info \in {None, "ImportError"}
    /\ save_images_dir \in BOOLEAN
    /\ ocr_formulas \in BOOLEAN
    /\ llm \in BOOLEAN
    /\ cwd_is_parent \in BOOLEAN
    /\ InitWriter
    /\ html = <<>>
    /\ text_content = <<>>
    /\ history = NoHistory
    /\ keep_data_uris = FALSE /\ pil = TRUE
    /\ slide_num = 0 /\ md_content = <<>>
    /\ arg = <<>>
    /\ ret = <<>>

\* A convert() that goes on without its library (variant of CheckDependencies)
CheckDependenciesM ==
    /\ pc = "convert"
    /\ pc' = IF converter = "docx" THEN "mammoth" ELSE "slides"
    /\ UNCHANGED <<cfgvars, writer, files, html, text_content, history, pptxvars,
                   arg, ret>>

\* The dependency check both convert() start with: MissingDependencyException is
\* raised when the import of the library failed; otherwise the DOCX converter sets
\* up the image writer and mammoth starts on the document, the PPTX converter
\* reads the presentation and starts the loop over the slides.
CheckDependencies ==
    /\ pc = "convert"
    /\ pc' = IF dependency_exc_info # None THEN "MissingDependencyException"
             ELSE IF converter = "docx" THEN "mammoth" ELSE "slides"
    /\ UNCHANGED <<cfgvars, writer, files, html, text_content, history, pptxvars,
                   arg, ret>>

\* mammoth calls the image writer for the next image of the document.  The inputs
\* are the image and the outcomes of the collaborators the call reaches: the two
\* runs of the conversion process, the length of a converted file, the answer of
\* the service.  An input the call does not reach is fixed (whether it reaches
\* one depends on the inputs before it only), so that no call is drawn twice.
WriteImageFrom(images, outcomes, responses) ==
    /\ converter = "docx" /\ pc = "mammoth"
    /\ save_images_dir
    /\ Len(html) < MaxImages
    /\ LET self == [image_counter |-> image_counter, ocr_cache |-> ocr_cache,
                    temp_files |-> temp_files, stats |-> stats]
           NoAnswer == [ok |-> FALSE, content |-> <<>>]
           Call(image, m1, sz, m2, resp) ==
               DocxImageWriterWith_llm_call(self, files, image, m1, sz, m2, resp)
       IN  \E image \in images, m1 \in outcomes :
           /\ Call(image, m1, SizeLimit + 1, "ok", NoAnswer).used.m1 \/ m1 = "ok"
           /\ \E sz \in PngSizes :
              /\ \E m2 \in outcomes :
                 /\ Call(image, m1, sz, m2, NoAnswer).used.m2 \/ m2 = "ok"
                 /\ \E resp \in responses :
                    LET r == Call(image, m1, sz, m2, resp)
                    IN  /\ r.used.resp \/ ~resp.ok
                        /\ image_counter' = r.image_counter
                        /\ ocr_cache' = r.ocr_cache
                        /\ temp_files' = r.temp_files
                        /\ stats' = r.stats
                        /\ files' = r.files
                        /\ html' = Append(html, r.src)
                        /\ history' = Record(history, r.events)
    /\ UNCHANGED <<cfgvars, pc, text_content, pptxvars, arg, ret>>

WriteImage == WriteImageFrom(Images, MagickOutcomes, LlmResponses)

\* without save_images_dir mammoth inlines the image as a data URI
DataUriImage ==
    /\ converter = "docx" /\ pc = "mammoth"
    /\ ~save_images_dir
    /\ Len(html) < MaxImages
    /\ \E image \in Images : html' = Append(html, <<"data:">>)
    /\ UNCHANGED <<cfgvars, pc, writer, files, text_content, history, pptxvars, arg, ret>>

\* mammoth.convert_to_html returns and the HTML is converted to Markdown
FinishHtml ==
    /\ converter = "docx" /\ pc = "mammoth"
    /\ text_content' = Markdown(html)
    /\ pc' = "resolve"
    /\ UNCHANGED <<cfgvars, writer, files, html, history, pptxvars, arg, ret>>

\* Post-processing 0 and 2 of convert(): the OMML placeholders, then the
\* LATEX_FORMULA markers, the latter only with an image writer of class
\* DocxImageWriterWith_llm.
PostProcess(text) ==
    LET text0 == ReSubOmml(text)
    IN  IF ocr_formulas /\ save_images_dir THEN ReSubLatex(text0) ELSE text0

\* A resolver pass that classifies once more (variant of ResolveMarkers)
ResolveMarkersM ==
    /\ converter = "docx" /\ pc = "resolve"
    /\ text_content' = PostProcess(text_content)
    /\ history' = [history EXCEPT !.classified = @ + 1]
    /\ pc' = "done"
    /\ UNCHANGED <<cfgvars, writer, files, html, pptxvars, arg, ret>>

ResolveMarkers ==
    /\ converter = "docx" /\ pc = "resolve"
    /\ text_content' = PostProcess(text_content)
    /\ pc' = "done"
    /\ UNCHANGED <<cfgvars, writer, files, html, history, pptxvars, arg, ret>>

(***************************************************************************)
(* PptxConverter.convert: the pictures of a slide deck.                     *)
(***************************************************************************)
\* The middle taken as n/2 whatever the parity (variant of MiddleIndex)
MiddleIndexM(frame_count) == frame_count \div 2

\* middle_index of split_and_merge_gif
MiddleIndex(frame_count) ==
    IF frame_count % 2 = 0 THEN (frame_count \div 2) - 1 ELSE frame_count \div 2

\* split_and_merge_gif(input_gif, output_png).  decodable: Image.open can read the
\* file; frame_count: the frames the seek loop counts.  result is the returned
\* path or None, raised an exception that leaves the function, frames the frame
\* indices the three seeks select.
SplitAndMergeGif(fs, input_gif, output_png, decodable, frame_count) ==
    IF ~pil
    THEN [result |-> None, raised |-> FALSE, files |-> fs, frames |-> <<>>]
    ELSE IF ~decodable
    THEN [result |-> None, raised |-> TRUE, files |-> fs, frames |-> <<>>]
    ELSE LET frames == <<0, MiddleIndex(frame_count), frame_count - 1>>
         IN  [result |-> output_png, raised |-> FALSE,
              files |-> WriteFile(fs, output_png,
                                  [fmt |-> "merged", blob |-> fs[input_gif].blob]),
              frames |-> frames]

\* shape.image of a picture: content type, the extension of its file name (None
\* without a file name), its bytes, and, for an animation, whether it decodes and
\* its number of frames.
Shapes == [content_type : {None, "image/png", "image/gif"},
           image_extension : {None, ".jpg"},
           blob : {1},
           decodable : BOOLEAN,
           frame_count : {1, MaxFrames}]

\* f"slide{slide_num}_image{image_counter}{ext}"
SlideImageName(s, n, ext) ==
    "slide" \o ToString(s) \o "_image" \o ToString(n) \o ext

\* llm_caption(...): a description, or an exception
CaptionOutcomes == {[ok |-> FALSE, content |-> <<>>], [ok |-> TRUE, content |-> <<"c">>]}

\* The picture branch of get_shape_content(shape).  raised: an exception left the
\* function (and convert()); item: what was appended to md_content.
GetShapeContent(counter, fs, shape, cap) ==
    LET content_type == IF shape.content_type = None THEN "image/png"
                        ELSE shape.content_type
        is_gif == content_type = "image/gif"
        n == counter + 1
        \* the part under "if images_dir:"
        saved ==
            IF ~save_images_dir
            THEN [image_counter |-> counter, files |-> fs, raised |-> FALSE,
                  saved_path |-> None, blob_for_llm |-> Raw(shape.blob),
                  promptIn |-> None, written |-> {}, original |-> None]
            ELSE IF is_gif
            THEN LET temp_filename == SlideImageName(slide_num, n, ".gif")
                     fs1 == WriteFile(fs, temp_filename, Raw(shape.blob))
                     merged_filename == SlideImageName(slide_num, n, "_merged.png")
                     r == SplitAndMergeGif(fs1, temp_filename, merged_filename,
                                           shape.decodable, shape.frame_count)
                     png_filename == SlideImageName(slide_num, n, ".png")
                 IN  IF r.raised
                     THEN [image_counter |-> n, files |-> r.files, raised |-> TRUE,
                           saved_path |-> None, blob_for_llm |-> Raw(shape.blob),
                           promptIn |-> None, written |-> {temp_filename},
                           original |-> temp_filename]
                     ELSE IF r.result # None
                     THEN [image_counter |-> n, files |-> r.files, raised |-> FALSE,
                           saved_path |-> merged_filename,
                           blob_for_llm |-> r.files[merged_filename],
                           promptIn |-> "llm_prompt_gif",
                           written |-> {temp_filename, merged_filename},
                           original |-> temp_filename]
                     ELSE [image_counter |-> n,
                           files |-> WriteFile(r.files, png_filename, Raw(shape.blob)),
                           raised |-> FALSE,
                           saved_path |-> png_filename,
                           blob_for_llm |-> Raw(shape.blob),
                           promptIn |-> "llm_prompt_png",
                           written |-> {temp_filename, png_filename},
                           original |-> temp_filename]
            ELSE LET ext == IF shape.image_extension = None THEN ".png"
                            ELSE shape.image_extension
                     saved_filename == SlideImageName(slide_num, n, ext)
                 IN  [image_counter |-> n,
                      files |-> WriteFile(fs, saved_filename, Raw(shape.blob)),
                      raised |-> FALSE,
                      saved_path |-> saved_filename,
                      blob_for_llm |-> Raw(shape.blob),
                      promptIn |-> "llm_prompt_png",
                      written |-> {saved_filename},
                      original |-> saved_filename]
        \* the part under "if llm_client is not None and llm_model is not None:";
        \* reading promptIn when no branch has assigned it raises inside the try
        called == llm /\ ~saved.raised /\ saved.promptIn # None
        llm_description == IF called /\ cap.ok THEN cap.content ELSE <<>>
        target == IF keep_data_uris THEN "data:" \o content_type
                  ELSE IF saved.saved_path # None THEN SrcOf(saved.saved_path)
                  ELSE "shape.jpg"
    IN  [image_counter |-> saved.image_counter,
         files |-> saved.files,
         raised |-> saved.raised,
         written |-> saved.written,
         is_gif |-> is_gif,
         item |-> [alt |-> llm_description, target |-> target],
         used |-> [gif |-> save_images_dir /\ is_gif /\ pil,
                   ext |-> save_images_dir /\ ~is_gif,
                   cap |-> called],
         events |-> [NoEvents EXCEPT
                       !.service = IF called
                                   THEN {ServiceCall(shape.blob, saved.blob_for_llm,
                                                     saved.promptIn)}
                                   ELSE {},
                       !.object = IF saved.written = {} THEN <<>>
                                  ELSE <<Object(saved.image_counter, saved.written,
                                                "none", "none", saved.original,
                                                saved.saved_path, FALSE)>>]]

\* PptxConverter.convert is called
InitPptx ==
    /\ other = NoThread
    /\ converter = "pptx"
    /\ pc = "convert"
    /\ dependency_exc_info \in {None, "ImportError"}
    /\ save_images_dir \in BOOLEAN
    /\ llm \in BOOLEAN
    /\ keep_data_uris \in BOOLEAN
    /\ pil \in BOOLEAN
    /\ ocr_formulas = TRUE /\ cwd_is_parent = TRUE
    /\ InitWriter
    /\ html = <<>>
    /\ text_content = <<>>
    /\ history = NoHistory
    /\ slide_num = 0 /\ md_content = <<>>
    /\ arg = <<>>
    /\ ret = <<>>

\* for slide in presentation.slides: slide_num += 1
NextSlide ==
    /\ converter = "pptx" /\ pc = "slides"
    /\ slide_num < MaxSlides
    /\ slide_num' = slide_num + 1
    /\ UNCHANGED <<cfgvars, pc, writer, files, html, text_content, history,
                   md_content, arg, ret>>

\* get_shape_content(shape) for a picture of the current slide.  An input the
\* call does not reach is fixed.
ShapePictureFrom(shapes, captions) ==
    /\ converter = "pptx" /\ pc = "slides"
    /\ slide_num >= 1
    /\ Len(md_content) < MaxImages
    /\ \E shape \in shapes, cap \in captions :
          LET r == GetShapeContent(image_counter, files, shape, cap)
          IN  /\ r.used.gif \/ (shape.decodable /\ shape.frame_count = 1)
              /\ r.used.ext \/ shape.image_extension = None
              /\ r.used.cap \/ ~cap.ok
              /\ image_counter' = r.image_counter
              /\ files' = r.files
              /\ history' = Record(history, r.events)
              /\ IF r.raised
                 THEN pc' = "raised" /\ md_content' = md_content
                 ELSE pc' = pc /\ md_content' = Append(md_content, r.item)
    /\ UNCHANGED <<cfgvars, docxvars, slide_num, arg, ret>>

ShapePicture == ShapePictureFrom(Shapes, CaptionOutcomes)

\* the loop over the slides ends and convert() returns
FinishPptx ==
    /\ converter = "pptx" /\ pc = "slides"
    /\ pc' = "done"
    /\ UNCHANGED <<cfgvars, writer, files, html, text_content, history,
                   pptxvars, arg, ret>>

Init == InitDocx \/ InitPptx
Next ==
    \/ CheckDependencies
    \/ WriteImage
    \/ DataUriImage
    \/ FinishHtml
    \/ ResolveMarkers
    \/ NextSlide
    \/ ShapePicture
    \/ FinishPptx
Spec == Init /\ [][Next]_vars

(***************************************************************************)
(* The resolver passes and the frame extractor applied on their own: Init   *)
(* draws the argument, the one action applies the function.                 *)
(***************************************************************************)
SeqsUpTo(S, n) == UNION {[1..k -> S] : k \in 0..n}

\* Nothing of a conversion has happened
Idle ==
    /\ dependency_exc_info = None
    /\ other = NoThread
    /\ llm = FALSE /\ cwd_is_parent = TRUE /\ keep_data_uris = FALSE
    /\ InitWriter
    /\ html = <<>> /\ text_content = <<>>
    /\ history = NoHistory
    /\ slide_num = 0 /\ md_content = <<>>
    /\ ret = <<>>

\* A document text with one image whose src is a LATEX_FORMULA marker
LatexArgs == [before : {<<>>, <<"t">>}, alt : {<<>>, <<"a">>},
              payload : SeqsUpTo({"(", ")", "x"}, MaxPayload), after : {<<>>, <<"t">>}]
LatexText(a) == a.before \o ImgMarkdown(a.alt, LatexSrcPrefix \o a.payload) \o a.after

InitLatex ==
    /\ converter = "docx" /\ pc = "call_latex"
    /\ save_images_dir = TRUE /\ ocr_formulas = TRUE /\ pil = TRUE
    /\ Idle
    /\ arg \in LatexArgs

ResolveLatexCall ==
    /\ pc = "call_latex"
    /\ ret' = PostProcess(LatexText(arg))
    /\ pc' = "ret_latex"
    /\ UNCHANGED <<cfgvars, writer, files, html, text_content, history, pptxvars, arg>>

NextLatex == ResolveLatexCall
SpecLatex == InitLatex /\ [][NextLatex]_vars

\* A document text with one OMML placeholder: the text of the equation, base64
\* encoded, with some of the '+' and '/' of the encoding escaped by a backslash
OmmlChars == {CharTable[i][1] : i \in 1..Len(CharTable)}
OmmlTexts == SeqsUpTo(OmmlChars, MaxOmmlLen) \ {<<>>}
Escapable(enc) == {i \in 1..Len(enc) : enc[i] \in {"+", "/"}}
RECURSIVE Escape(_, _, _)
Escape(enc, escaped, i) ==
    IF i > Len(enc) THEN <<>>
    ELSE (IF i \in escaped THEN <<"\\", enc[i]>> ELSE <<enc[i]>>)
         \o Escape(enc, escaped, i + 1)
\* the placeholder format: <U+27E8>OMML:$:base64<U+27E9> or <U+27E8>OMML:$$:base64<U+27E9>
OmmlMarker(delimiter, latex_b64) ==
    OmmlOpen \o delimiter \o <<":">> \o latex_b64 \o <<OmmlClose>>
OmmlText(a) ==
    a.before
    \o OmmlMarker(a.delimiter, Escape(B64Encode(Utf8Encode(a.text)), a.escaped, 1))
    \o a.after

InitOmml ==
    /\ converter = "docx" /\ pc = "call_omml"
    /\ save_images_dir \in BOOLEAN /\ ocr_formulas = TRUE /\ pil = TRUE
    /\ Idle
    /\ \E text \in OmmlTexts, delimiter \in {<<"$">>, <<"$", "$">>},
          before \in {<<>>, <<"t">>} :
       \E escaped \in SUBSET Escapable(B64Encode(Utf8Encode(text))) :
          arg = [text |-> text, delimiter |-> delimiter, escaped |-> escaped,
                 before |-> before, after |-> before]

ResolveOmmlCall ==
    /\ pc = "call_omml"
    /\ ret' = PostProcess(OmmlText(arg))
    /\ pc' = "ret_omml"
    /\ UNCHANGED <<cfgvars, writer, files, html, text_content, history, pptxvars, arg>>

NextOmml == ResolveOmmlCall
SpecOmml == InitOmml /\ [][NextOmml]_vars

\* An animation file of frame_count frames, decodable or not, with PIL or without
InitGif ==
    /\ converter = "pptx" /\ pc = "call_gif"
    /\ save_images_dir = TRUE /\ ocr_formulas = TRUE
    /\ pil \in BOOLEAN
    /\ dependency_exc_info = None
    /\ other = NoThread
    /\ llm = FALSE /\ cwd_is_parent = TRUE /\ keep_data_uris = FALSE
    /\ image_counter = 0 /\ ocr_cache = NoCache /\ temp_files = <<>>
    /\ stats = ZeroStats
    /\ files = WriteFile(NoFiles, "in.gif", Raw(1))
    /\ html = <<>> /\ text_content = <<>>
    /\ history = NoHistory
    /\ slide_num = 0 /\ md_content = <<>>
    /\ ret = <<>>
    /\ arg \in [frame_count : 1..MaxFrames, decodable : BOOLEAN]

SplitAndMergeGifCall ==
    /\ pc = "call_gif"
    /\ LET r == SplitAndMergeGif(files, "in.gif", "merged_frames.png",
                                 arg.decodable, arg.frame_count)
       IN  /\ ret' = [result |-> r.result, raised |-> r.raised, frames |-> r.frames]
           /\ files' = r.files
    /\ pc' = "ret_gif"
    /\ UNCHANGED <<cfgvars, writer, html, text_content, history, pptxvars, arg>>

NextGif == SplitAndMergeGifCall
SpecGif == InitGif /\ [][NextGif]_vars

(***************************************************************************)
(* The claims.                                                              *)
(***************************************************************************)
DocxDone == converter = "docx" /\ pc = "done"

\* C1: within one document conversion the recognition service is invoked at most
\* once per distinct content: of the media objects with identical raw bytes
\* submitted for formula recognition only the first calls the service, whatever
\* the outcome of that first call was.
C1_ServiceAtMostOncePerContent ==
    converter = "docx" => \A b \in Blobs : history.service[b] <= 1

\* the parentheses of a payload are balanced
RECURSIVE Depth(_, _)
Depth(payload, d) ==
    IF payload = <<>> \/ d < 0 THEN d
    ELSE Depth(Tail(payload),
               IF Head(payload) = "(" THEN d + 1
               ELSE IF Head(payload) = ")" THEN d - 1 ELSE d)
Balanced(payload) == Depth(payload, 0) = 0

\* C2: for every payload with balanced parentheses, resolving the text of a marker
\* "![](LATEX_FORMULA:" payload ")" leaves, where the marker stood, exactly the
\* payload, once, with nothing of the marker left over.
C2_BalancedMarkerRoundTrip ==
    (pc = "ret_latex" /\ arg.alt = <<>> /\ Balanced(arg.payload))
        => ret = arg.before \o arg.payload \o arg.after

\* the src returned by the writer is a marker
IsMarker(src) ==
    /\ Len(src) >= Len(LatexSrcPrefix)
    /\ SubSeq(src, 1, Len(LatexSrcPrefix)) = LatexSrcPrefix
\* the text of the document with each marker replaced by its payload
RECURSIVE Resolved(_)
Resolved(items) ==
    IF items = <<>> THEN <<>>
    ELSE (IF IsMarker(Head(items))
          THEN SubSeq(Head(items), Len(LatexSrcPrefix) + 1, Len(Head(items)))
          ELSE ImgMarkdown(<<>>, Head(items)))
         \o Resolved(Tail(items))

\* C3: every marker the writer emitted during the traversal is resolved exactly once
\* by the final pass: in the text convert() returns each marker's payload stands,
\* once, where the marker stood, and nothing else has changed.
C3_EveryMarkerResolvedOnce ==
    DocxDone => text_content = Resolved(html)

\* C4: a printable text, base64-encoded into an OMML marker with any subset of the
\* '+' and '/' of the encoding escaped by a backslash, is restored by the resolver:
\* the marker is replaced by the text between its delimiters, character for
\* character (a display formula is followed by an empty line).
C4_EncodedMarkerRoundTrip ==
    pc = "ret_omml"
        => ret = arg.before \o arg.delimiter \o arg.text \o arg.delimiter
                 \o (IF arg.delimiter = <<"$", "$">> THEN <<"\n", "\n">> ELSE <<>>)
                 \o arg.after
C4_Witness ==
    /\ pc = "ret_omml"
    /\ \E i \in arg.escaped : B64Encode(Utf8Encode(arg.text))[i] = "/"
    /\ "U+E9" \in {arg.text[i] : i \in 1..Len(arg.text)}
    /\ arg.delimiter = <<"$", "$">>

\* C5: the k-th media object written to disk has the counter value k, whatever its
\* classification or recognition came to, and no two files written for different
\* media objects of a document have the same name (DOCX writer and PPTX traversal).
C5_SequentialUniqueNames ==
    /\ image_counter = Len(history.objects)
    /\ \A k \in 1..Len(history.objects) :
          LET o == history.objects[k]
          IN  /\ o.n = k
              /\ o.names # {}
              /\ \A j \in 1..Len(history.objects) :
                    j # k => o.names \cap history.objects[j].names = {}
C5_Witness ==
    /\ Len(history.objects) >= 2
    /\ history.objects[1].marker
    /\ ~history.objects[2].marker

C7_FrameIndices ==
    (pc = "ret_gif" /\ ret.result # None) =>
        LET n == arg.frame_count
            middle == ret.frames[2]
        IN  /\ Len(ret.frames) = 3
            /\ ret.frames[1] = 0
            /\ ret.frames[3] = n - 1
            /\ n % 2 = 0 => 2 * middle + 2 = n
            /\ n % 2 = 1 => 2 * middle + 1 = n
            /\ \A i \in 1..3 : ret.frames[i] \in 0..(n - 1)
            /\ n = 5 => ret.frames = <<0, 2, 4>>
            /\ n = 4 => ret.frames = <<0, 1, 3>>
C7_Witness ==
    /\ pc = "ret_gif" /\ ret.result # None
    /\ arg.frame_count = 4
    /\ ret.frames = <<0, 1, 3>>

\* C8: two invocations of the classifier with the same content type, extension and
\* byte length give the same verdict, whatever the state of the writer and
\* whatever came before.
C8_ClassifierDeterministic ==
    \A v, w \in history.verdicts :
        (v.ct = w.ct /\ v.suffix = w.suffix /\ v.size = w.size) => v.verdict = w.verdict
C8_Witness ==
    /\ history.classified = 2
    /\ Cardinality(history.verdicts) = 1
    /\ ocr_cache # NoCache
    /\ stats.formula_detected = 2

\* C9: every classification, transcoding and recognition call of a conversion
\* happens before the resolver pass starts; from then on no step classifies,
\* transcodes, calls the service or touches a file or the writer, and the
\* traversal does not start again.
C9_PhasesOrdered ==
    [][(converter = "docx" /\ pc \in {"resolve", "done"})
          => /\ history' = history
             /\ files' = files
             /\ writer' = writer
             /\ pc' # "mammoth"]_vars
C9_Witness ==
    /\ DocxDone
    /\ history.classified > 0
    /\ history.transcodes > 0
    /\ \E b \in Blobs : history.service[b] > 0
    /\ text_content # Markdown(html)

\* C10: a failure on one media object (transcoding, frame extraction for any
\* reason, the recognition service) does not abort the conversion.
C10_ConversionNeverAborts == pc # "raised"

\* C11: when the document-parsing library is absent, convert() of either converter
\* raises MissingDependencyException before any media object is processed: no file
\* is written, no counter advanced, no transcoder or service call made, nothing
\* produced, and the conversion ends with the exception.
C11_MissingDependencyIsFatal ==
    dependency_exc_info # None =>
        /\ pc \in {"convert", "MissingDependencyException"}
        /\ files = NoFiles
        /\ image_counter = 0 /\ ocr_cache = NoCache /\ temp_files = <<>>
        /\ stats = ZeroStats
        /\ history = NoHistory
        /\ html = <<>> /\ text_content = <<>>
        /\ slide_num = 0 /\ md_content = <<>>
C11_Witness ==
    /\ pc = "MissingDependencyException"
    /\ save_images_dir /\ llm

(***************************************************************************)
(* Two convert() calls on one converter instance, one after the other or    *)
(* interleaved on two threads.  The variables hold the locals of the call   *)
(* that is running and other those of the call that is not; the output      *)
(* directory is the same for both.                                          *)
(***************************************************************************)
\* An image writer kept on the converter instance: the threads change places but
\* the writer stays (variant of Switch)
SwitchM ==
    /\ other.pc # "none"
    /\ other' = Locals
    /\ pc' = other.pc
    /\ html' = other.html
    /\ text_content' = other.text_content
    /\ history' = other.history
    /\ slide_num' = other.slide_num
    /\ md_content' = other.md_content
    /\ UNCHANGED <<converter, save_images_dir, ocr_formulas, llm, cwd_is_parent,
                   keep_data_uris, pil, dependency_exc_info, writer, files, arg, ret>>

\* The other call goes on: image_writer (lines 533-552 of the DOCX converter) and
\* md_content, slide_num, image_counter (lines 141-143 of the PPTX converter) are
\* local variables of convert(), so each call has its own.
Switch ==
    /\ other.pc # "none"
    /\ other' = Locals
    /\ pc' = other.pc
    /\ image_counter' = other.image_counter
    /\ ocr_cache' = other.ocr_cache
    /\ temp_files' = other.temp_files
    /\ stats' = other.stats
    /\ html' = other.html
    /\ text_content' = other.text_content
    /\ history' = other.history
    /\ slide_num' = other.slide_num
    /\ md_content' = other.md_content
    /\ UNCHANGED <<converter, save_images_dir, ocr_formulas, llm, cwd_is_parent,
                   keep_data_uris, pil, dependency_exc_info, files, arg, ret>>

InitTwo ==
    /\ converter \in {"docx", "pptx"}
    /\ pc = "convert"
    /\ dependency_exc_info = None
    /\ other = NewCall
    /\ save_images_dir = TRUE /\ ocr_formulas = TRUE /\ llm = TRUE
    /\ cwd_is_parent = TRUE /\ keep_data_uris = FALSE /\ pil = TRUE
    /\ InitWriter
    /\ html = <<>> /\ text_content = <<>>
    /\ history = NoHistory
    /\ slide_num = 0 /\ md_content = <<>>
    /\ arg = <<>> /\ ret = <<>>

\* the image writer is called for a WMF formula; the conversion process works
WriteFormulaImage ==
    WriteImageFrom({[content_type |-> "image/wmf", blob |-> 1]}, {"ok"},
                   {[ok |-> FALSE, content |-> <<>>], [ok |-> TRUE, content |-> <<"x">>]})

\* get_shape_content for a PNG picture
ShapePngPicture ==
    ShapePictureFrom({[content_type |-> "image/png", image_extension |-> None,
                       blob |-> 1, decodable |-> TRUE, frame_count |-> 1]},
                     CaptionOutcomes)

NextTwo ==
    \/ Switch
    \/ CheckDependencies
    \/ WriteFormulaImage
    \/ FinishHtml
    \/ ResolveMarkers
    \/ NextSlide
    \/ ShapePngPicture
    \/ FinishPptx
SpecTwo == InitTwo /\ [][NextTwo]_vars

\* the writer state of a call is what that call alone has made it
OwnWriter(l) ==
    /\ l.pc = "convert" =>
          /\ l.image_counter = 0 /\ l.ocr_cache = NoCache
          /\ l.temp_files = <<>> /\ l.stats = ZeroStats
    /\ l.image_counter = Len(l.history.objects)
    /\ converter = "docx" =>
          /\ l.stats.total_images = Len(l.history.objects)
          /\ l.stats.formula_detected = l.history.classified
          /\ l.stats.ocr_success + l.stats.ocr_failed + l.stats.ocr_cached
                = l.stats.formula_detected
          /\ l.stats.ocr_success + l.stats.ocr_failed
                = l.history.service[1] + l.history.service[2]
          /\ DOMAIN l.ocr_cache \subseteq {[md5 |-> e.sent] : e \in l.history.sent}

\* C12: of two convert() calls on the same converter instance, one after the other
\* or interleaved, each starts with counter 0, an empty cache, an empty temp-file
\* list and zeroed statistics, and the counter, cache and statistics of each are
\* what that call alone has done: no update of one is observed by the other.
C12_WriterStateScoped ==
    /\ OwnWriter(Locals)
    /\ OwnWriter(other)
C12_Witness ==
    /\ pc \in {"mammoth", "slides"} /\ other.pc = pc
    /\ image_counter = 2 /\ other.image_counter = 1
    /\ converter = "docx" /\ ocr_cache # NoCache /\ other.ocr_cache = NoCache

(***************************************************************************)
(* The classifier applied on its own.                                       *)
(***************************************************************************)
\* a file path (its suffix), a content type or None, and the result of stat()
ClassifierArgs ==
    [suffix : {".png", ".jpg", ".wmf", ".emf"},
     content_type : ContentTypes \cup {None, "image/x-emf"},
     st : {-1, 0, SizeLimit, SizeLimit + 1}]

InitClassifier ==
    /\ converter = "docx" /\ pc = "call_classifier"
    /\ save_images_dir = TRUE /\ ocr_formulas = TRUE /\ pil = TRUE
    /\ Idle
    /\ arg \in ClassifierArgs

IsLikelyFormulaCall ==
    /\ pc = "call_classifier"
    /\ ret' = IsLikelyFormula([image_counter |-> image_counter, ocr_cache |-> ocr_cache,
                               temp_files |-> temp_files, stats |-> stats],
                              arg.suffix, arg.content_type, arg.st)
    /\ pc' = "ret_classifier"
    /\ UNCHANGED <<cfgvars, writer, files, html, text_content, history, pptxvars, arg>>

NextClassifier == IsLikelyFormulaCall
SpecClassifier == InitClassifier /\ [][NextClassifier]_vars

\* C13: a media object whose file extension is .wmf or .emf, or whose content type
\* indicates a legacy vector format, is classified likely-formula whatever its
\* byte length; one with neither is never classified likely-formula.
C13_LegacyVectorIsFormula ==
    pc = "ret_classifier" =>
        (ret <=> \/ arg.suffix \in {".wmf", ".emf"}
                 \/ (arg.content_type # None
                       /\ (ContainsWmf(arg.content_type) \/ ContainsEmf(arg.content_type))))

\* the conversion is a DOCX one whose images go through the image writer
DocxWriting == converter = "docx" /\ save_images_dir /\ pc # "convert"
Markers == {k \in 1..Len(history.objects) : history.objects[k].marker}
Payload(src) == SubSeq(src, Len(LatexSrcPrefix) + 1, Len(src))

Trimmed(v) == v # <<>> /\ Head(v) # " " /\ v[Len(v)] # " "
\* v is what is left of a service answer when the blanks around it are dropped
Answered(v) ==
    \E t \in LlmTexts : \E i, j \in 1..Len(t) :
        /\ v = SubSeq(t, i, j)
        /\ \A n \in (1..Len(t)) \ (i..j) : t[n] = " "
CacheOk(cache, st, h) ==
    /\ NoHash \notin DOMAIN cache
    /\ Cardinality(DOMAIN cache) <= st.ocr_success
    /\ \A k \in DOMAIN cache :
          /\ Trimmed(cache[k])
          /\ Answered(cache[k])
          /\ \E e \in h.sent : e.blob = k.md5.blob /\ e.prompt = "formula"

C16_CacheKeyIsDigestOfSentAsset ==
    converter = "docx" =>
        \A k \in DOMAIN ocr_cache : \E e \in history.sent : k = [md5 |-> e.sent]

\* C17: nothing is retried: for one media object the conversion process is invoked
\* at most once and the recognition service at most once, also when the first
\* conversion attempt fails.
C17_NothingRetried ==
    converter = "docx" =>
        /\ \A k \in 1..Len(history.objects) :
              history.objects[k].base = "none" \/ history.objects[k].conv = "none"
        /\ history.transcodes <= Len(history.objects)
        /\ history.service[1] + history.service[2] <= Len(history.objects)

(***************************************************************************)
(* The lifetime of an image writer with formula recognition, up to its      *)
(* __del__, with a conversion process that can leave an output behind when  *)
(* it fails.                                                                *)
(***************************************************************************)
InitTemp ==
    /\ converter = "docx"
    /\ pc = "convert"
    /\ dependency_exc_info = None
    /\ other = NoThread
    /\ save_images_dir = TRUE /\ ocr_formulas = TRUE /\ llm \in BOOLEAN
    /\ cwd_is_parent = TRUE /\ keep_data_uris = FALSE /\ pil = TRUE
    /\ InitWriter
    /\ html = <<>> /\ text_content = <<>>
    /\ history = NoHistory
    /\ slide_num = 0 /\ md_content = <<>>
    /\ arg = <<>> /\ ret = <<>>

\* the image writer is called for a WMF image
WriteWmfImage ==
    WriteImageFrom({[content_type |-> "image/wmf", blob |-> 1]},
                   MagickOutcomes \cup MagickLeftovers,
                   {[ok |-> FALSE, content |-> <<>>], [ok |-> TRUE, content |-> <<"x">>]})

\* os.remove of the files of a list that exist
RECURSIVE RemoveAll(_, _)
RemoveAll(fs, names) ==
    IF names = <<>> THEN fs ELSE RemoveAll(Unlink(fs, Head(names)), Tail(names))

\* DocxImageWriterWith_llm.__del__, when convert() has returned and the writer is
\* collected
WriterDel ==
    /\ converter = "docx" /\ pc = "done"
    /\ files' = RemoveAll(files, temp_files)
    /\ pc' = "deleted"
    /\ UNCHANGED <<cfgvars, writer, html, text_content, history, pptxvars, arg, ret>>

NextTemp ==
    \/ CheckDependencies
    \/ WriteWmfImage
    \/ FinishHtml
    \/ ResolveMarkers
    \/ WriterDel
SpecTemp == InitTemp /\ [][NextTemp]_vars

TempOutputs == {MkTemp(n) : n \in 1..image_counter} \cap DOMAIN files
Listed(names) == {names[i] : i \in 1..Len(names)}

\* C18: every temporary output that _convert_to_png_if_needed has caused to exist
\* is in the writer's temp_files list, whether the conversion was a success or a
\* failure that left an output file, and after the writer's __del__ none of them
\* is left on disk.
C18_TempOutputsTracked ==
    /\ TempOutputs \subseteq Listed(temp_files)
    /\ pc = "deleted" => TempOutputs = {}

(***************************************************************************)
(* A presentation whose pictures are all animations (content type           *)
(* image/gif), under every configuration of convert().                      *)
(***************************************************************************)
Animations == {shape \in Shapes : shape.content_type = "image/gif"}

\* get_shape_content(shape) for a picture that is an animation
ShapeGifPicture == ShapePictureFrom(Animations, CaptionOutcomes)

NextAnim ==
    \/ CheckDependencies
    \/ NextSlide
    \/ ShapeGifPicture
    \/ FinishPptx
SpecAnim == InitPptx /\ [][NextAnim]_vars

\* the k-th animation of the presentation was written to the output directory as
\* its original and as its composite
Materialized(k) ==
    /\ k <= Len(history.objects)
    /\ \E original, composite \in history.objects[k].names :
          /\ original = history.objects[k].original
          /\ original \in DOMAIN files /\ files[original].fmt = "raw"
          /\ composite \in DOMAIN files /\ files[composite].fmt = "merged"

\* C19: for every animation that convert() has emitted, whatever save_images_dir
\* and keep_data_uris are, the original and the three-frame composite are both on
\* disk, and with a client configured the service was called once per animation,
\* each time with the composite and the animation prompt.
C19_AnimationMaterializedAndCaptioned ==
    /\ \A k \in 1..Len(md_content) : Materialized(k)
    /\ llm => /\ history.service[1] = Len(md_content)
              /\ \A e \in history.sent :
                    e.prompt = "llm_prompt_gif" /\ e.sent.fmt = "merged"

\* C20: an animation whose caption failed (no client, or the service raised) is
\* referred to in the markdown by its original asset: inline as image/gif data,
\* or by the path of the saved .gif, never by the composite.
C20_FailedCaptionRefersToOriginal ==
    \A k \in 1..Len(md_content) :
        md_content[k].alt = <<>> =>
            md_content[k].target =
                IF keep_data_uris THEN "data:image/gif"
                ELSE IF save_images_dir THEN SrcOf(history.objects[k].original)
                ELSE "shape.jpg"

(***************************************************************************)
(* The resolver on a text with two OMML placeholders: one with an arbitrary  *)
(* payload of the pattern's character class, one that encodes "a".           *)
(***************************************************************************)
B64Payloads == SeqsUpTo({"Q", "/", "w", "=", "\\"}, MaxB64Len) \ {<<>>}
GoodMarker == OmmlMarker(<<"$">>, B64Encode(Utf8Encode(<<"a">>)))
TwoMarkers(a, one) ==
    IF a.first THEN one \o <<"t">> \o GoodMarker ELSE GoodMarker \o <<"t">> \o one

InitDecode ==
    /\ converter = "docx" /\ pc = "call_decode"
    /\ save_images_dir \in BOOLEAN /\ ocr_formulas = TRUE /\ pil = TRUE
    /\ Idle
    /\ arg \in [payload : B64Payloads, delimiter : {<<"$">>, <<"$", "$">>},
                first : BOOLEAN]

ResolveDecodeCall ==
    /\ pc = "call_decode"
    /\ ret' = PostProcess(TwoMarkers(arg, OmmlMarker(arg.delimiter, arg.payload)))
    /\ pc' = "ret_decode"
    /\ UNCHANGED <<cfgvars, writer, files, html, text_content, history, pptxvars, arg>>

NextDecode == ResolveDecodeCall
SpecDecode == InitDecode /\ [][NextDecode]_vars

\* base64.b64decode or bytes.decode raises on the payload
DecodeFails(latex_b64) ==
    \/ ~B64Decode(Unescape(latex_b64)).ok
    \/ ~Utf8Decode(B64Decode(Unescape(latex_b64)).bytes).ok

\* C21: when the payload of an OMML placeholder cannot be decoded (base64 or UTF-8
\* error), the resolver returns, leaves that placeholder in the text as it was,
\* and still replaces the other placeholder of the text by its equation.
C21_DecodeFailureKeepsMarker ==
    (pc = "ret_decode" /\ DecodeFails(arg.payload))
        => ret = IF arg.first
                 THEN OmmlMarker(arg.delimiter, arg.payload) \o <<"t", "$", "a", "$">>
                 ELSE <<"$", "a", "$", "t">> \o OmmlMarker(arg.delimiter, arg.payload)
C21_Witness ==
    /\ pc = "ret_decode"
    /\ arg.first
    /\ B64Decode(Unescape(arg.payload)).ok
    /\ ~Utf8Decode(B64Decode(Unescape(arg.payload)).bytes).ok

\* the counters of self.stats agree with each other and with the calls made
StatsOk(st, calls) ==
    /\ st.total_images = calls
    /\ st.formula_detected <= st.total_images
    /\ st.formula_detected = st.ocr_success + st.ocr_failed + st.ocr_cached
    /\ ~llm => st.ocr_failed = st.formula_detected

C23_ReferencedFileExists ==
    converter = "docx" =>
        \A k \in 1..Len(history.objects) :
            history.objects[k].filename \in DOMAIN files

\* C24: in a PPTX conversion with a client and a model configured, the service has
\* been called once for every picture emitted, with save_images_dir or without,
\* and each call carried a prompt: the animation prompt or the caller's.
C24_CaptionRequestedForEveryPicture ==
    (converter = "pptx" /\ llm) =>
        /\ history.service[1] = Len(md_content)
        /\ \A e \in history.sent : e.prompt \in {"llm_prompt_gif", "llm_prompt_png"}

(***************************************************************************)
(* The resolver on an assembled text: up to two markers, with text before,  *)
(* between and after them.                                                  *)
(***************************************************************************)
OutsideTexts == SeqsUpTo({" ", "(", ")"}, MaxOutside)
\* no marker, a LATEX_FORMULA marker with a balanced payload, an OMML placeholder
\* that decodes, one that does not
FrameMarkers ==
    {<<>>,
     ImgMarkdown(<<>>, LatexSrcPrefix \o <<"x">>),
     ImgMarkdown(<<>>, LatexSrcPrefix \o <<"(", "x", ")">>),
     GoodMarker,
     OmmlMarker(<<"$">>, <<"Q">>)}
FrameText(a) == a.before \o a.m1 \o a.mid \o a.m2 \o a.after

InitFrame ==
    /\ converter = "docx" /\ pc = "call_frame"
    /\ save_images_dir = TRUE /\ ocr_formulas = TRUE /\ pil = TRUE
    /\ Idle
    /\ arg \in [before : OutsideTexts, m1 : FrameMarkers, mid : OutsideTexts,
                m2 : FrameMarkers, after : OutsideTexts]

ResolveFrameCall ==
    /\ pc = "call_frame"
    /\ ret' = PostProcess(FrameText(arg))
    /\ pc' = "ret_frame"
    /\ UNCHANGED <<cfgvars, writer, files, html, text_content, history, pptxvars, arg>>

NextFrame == ResolveFrameCall
SpecFrame == InitFrame /\ [][NextFrame]_vars

\* out is the text of a with each marker span replaced by something (by nothing
\* where there is no marker): i is where the replacement of m1 ends, j where that
\* of m2 ends
Framed(out, a) ==
    \E i \in Len(a.before)..Len(out) :
    \E j \in (i + Len(a.mid))..Len(out) :
        /\ SubSeq(out, 1, Len(a.before)) = a.before
        /\ SubSeq(out, i + 1, i + Len(a.mid)) = a.mid
        /\ SubSeq(out, j + 1, Len(out)) = a.after
        /\ a.m1 = <<>> => i = Len(a.before)
        /\ a.m2 = <<>> => j = i + Len(a.mid)

\* C25: the resolver changes marker spans only: the text before, between and after
\* the markers of a document stands in the result unchanged and in the same order,
\* and a text without a marker is returned as it was.
C25_OnlyMarkerSpansChange ==
    pc = "ret_frame" => Framed(ret, arg)
C25_Witness ==
    /\ pc = "ret_frame"
    /\ arg.before = <<" ">> /\ arg.mid = <<"(">> /\ arg.after = <<")">>
    /\ arg.m1 = ImgMarkdown(<<>>, LatexSrcPrefix \o <<"(", "x", ")">>)
    /\ arg.m2 = GoodMarker
    /\ ret # FrameText(arg)

====
